---- MODULE Spec2Model ----
(***************************************************************************)
(* Sparse matrix container (matrix_core.py), its arithmetic                *)
(* (operations.py), the text/JSON collaborators (matrix_io.py) and the     *)
(* operation summary (main.py).                                            *)
(*                                                                         *)
(* Objects live in an object store `heap` (a sequence; an object's address *)
(* is its index).  A matrix object is [rows, cols, data]; `data` is the    *)
(* Python dict, kept as the sequence of its <<key, value>> pairs in        *)
(* insertion order, key = <<row, col>>.                                    *)
(***************************************************************************)
EXTENDS Integers, Sequences, FiniteSets

VARIABLES heap,    \* object store: sequence of matrix objects
          result,  \* address returned by the last operation, None if none
          other,   \* second returned address (right-hand side of a comparison)
          call,    \* the last call: [op, args, err]
          later,   \* a set() performed on a returned matrix after the call
          pre,     \* the object store as it was when `call` was entered
          out,     \* what a writer / reporter emitted
          file,    \* the text file handed to the parser
          steps,   \* number of set calls made so far
          pc       \* phase of the run

vars == <<heap, result, other, call, later, pre, out, file, steps, pc>>

\* ---------------------------------------------------------------- bounds
MaxCells == 2    \* a matrix has at most MaxCells coordinates (rows * cols)
MaxVal   == 1    \* values range over -1..MaxVal
MaxSets  == 3    \* set calls per run
MaxTerm  == 2    \* populated entries of the addends B and C of A(B + C) together
MaxLines == 2    \* entry lines of a parsed file

None  == 0
NoErr == "none"

\* the shapes (rows, cols) a matrix is constructed with
Shapes == {s \in (0..MaxCells) \X (0..MaxCells) : s[1] * s[2] <= MaxCells}

\* coordinates handed to a matrix of n rows (columns): from one below the
\* first to one past the last
Coords(n) == (-1)..n

Vals   == (-1)..MaxVal
NZVals == Vals \ {0}

\* ------------------------------------------------- Python dict primitives
DictHas(d, k) == \E n \in 1..Len(d) : d[n][1] = k

DictGet(d, k, default) ==
    IF DictHas(d, k) THEN d[CHOOSE n \in 1..Len(d) : d[n][1] = k][2]
    ELSE default

\* d[k] = v : an existing key keeps its position, a new key goes last
DictPut(d, k, v) ==
    IF DictHas(d, k)
    THEN [n \in 1..Len(d) |-> IF d[n][1] = k THEN <<k, v>> ELSE d[n]]
    ELSE Append(d, <<k, v>>)

DictDel(d, k) == SelectSeq(d, LAMBDA e : e[1] # k)

\* ------------------------------------------------------- matrix_core.py
SparseMatrix(rows, cols) == [rows |-> rows, cols |-> cols, data |-> <<>>]

\* allocation of a fresh object: `SparseMatrix(rows, cols)` as an expression
new_matrix(h, rows, cols) ==
    [heap |-> Append(h, SparseMatrix(rows, cols)), ref |-> Len(h) + 1]

\* set that stores a zero like any other value
set_keeps_zero(h, self, row, col, value) ==
    IF row < 0 \/ col < 0 \/ row >= h[self].rows \/ col >= h[self].cols
    THEN [heap |-> h, err |-> "IndexError"]
    ELSE [heap |-> [h EXCEPT ![self].data = DictPut(@, <<row, col>>, value)],
          err |-> NoErr]

\* set whose upper bounds test is off by one
set_off_by_one(h, self, row, col, value) ==
    IF row < 0 \/ col < 0 \/ row > h[self].rows \/ col > h[self].cols
    THEN [heap |-> h, err |-> "IndexError"]
    ELSE IF value # 0
    THEN [heap |-> [h EXCEPT ![self].data = DictPut(@, <<row, col>>, value)],
          err |-> NoErr]
    ELSE [heap |-> [h EXCEPT ![self].data = DictDel(@, <<row, col>>)],
          err |-> NoErr]

set(h, self, row, col, value) ==
    IF row < 0 \/ col < 0 \/ row >= h[self].rows \/ col >= h[self].cols
    THEN [heap |-> h, err |-> "IndexError"]
    ELSE IF value # 0
    THEN [heap |-> [h EXCEPT ![self].data = DictPut(@, <<row, col>>, value)],
          err |-> NoErr]
    ELSE IF DictHas(h[self].data, <<row, col>>)
    THEN [heap |-> [h EXCEPT ![self].data = DictDel(@, <<row, col>>)],
          err |-> NoErr]
    ELSE [heap |-> h, err |-> NoErr]

get(h, self, row, col) == DictGet(h[self].data, <<row, col>>, 0)

items(h, self) == h[self].data

\* ------------------------------------------------------------ matrix_io.py
RECURSIVE SortedInsert(_, _)
KeyLess(k1, k2) == k1[1] < k2[1] \/ (k1[1] = k2[1] /\ k1[2] < k2[2])

SortedInsert(s, e) ==
    IF s = <<>> THEN <<e>>
    ELSE IF KeyLess(e[1], Head(s)[1]) THEN <<e>> \o s
    ELSE <<Head(s)>> \o SortedInsert(Tail(s), e)

RECURSIVE sorted(_)
sorted(its) ==
    IF its = <<>> THEN <<>>
    ELSE SortedInsert(sorted(SubSeq(its, 1, Len(its) - 1)), its[Len(its)])

Triples(its) == [n \in 1..Len(its) |-> <<its[n][1][1], its[n][1][2], its[n][2]>>]

write_matrix_to_file(h, matrix) ==
    [rows |-> h[matrix].rows, cols |-> h[matrix].cols,
     entries |-> Triples(sorted(items(h, matrix)))]

write_matrix_to_json(h, matrix) ==
    [rows |-> h[matrix].rows, cols |-> h[matrix].cols,
     entries |-> Triples(items(h, matrix))]

\* ---------------------------------------------------------------- calls
Call(op, args, err) == [op |-> op, args |-> args, err |-> err]
NoCall == Call("none", <<>>, NoErr)
NoFile == [rows |-> 0, cols |-> 0, lines |-> <<>>]
NoOut  == [rows |-> 0, cols |-> 0, entries |-> <<>>]

\* ------------------------------------------- a matrix driven by set calls
InitSet ==
    /\ \E s \in Shapes : heap = <<SparseMatrix(s[1], s[2])>>
    /\ result = None /\ other = None
    /\ call = NoCall /\ later = NoCall
    /\ pre = heap
    /\ out = NoOut /\ file = NoFile
    /\ steps = 0
    /\ pc = "ready"

SetCall ==
    /\ pc = "ready" /\ steps < MaxSets
    /\ \E row \in Coords(heap[1].rows), col \in Coords(heap[1].cols), value \in Vals :
         LET r == set(heap, 1, row, col, value) IN
           /\ heap' = r.heap
           /\ call' = Call("set", <<1, row, col, value>>, r.err)
    /\ pre' = heap
    /\ steps' = steps + 1
    /\ UNCHANGED <<result, other, later, out, file, pc>>

WriteMatrixToFile ==
    /\ pc = "ready"
    /\ out' = write_matrix_to_file(heap, 1)
    /\ call' = Call("write_matrix_to_file", <<1>>, NoErr)
    /\ pre' = heap
    /\ pc' = "written"
    /\ UNCHANGED <<heap, result, other, later, file, steps>>

WriteMatrixToJson ==
    /\ pc = "ready"
    /\ out' = write_matrix_to_json(heap, 1)
    /\ call' = Call("write_matrix_to_json", <<1>>, NoErr)
    /\ pre' = heap
    /\ pc' = "written"
    /\ UNCHANGED <<heap, result, other, later, file, steps>>

NextSet == SetCall \/ WriteMatrixToFile \/ WriteMatrixToJson

SpecSet == InitSet /\ [][NextSet]_vars

\* ------------------------------------------------------------ operations.py
\* check that demands only one of the two dimensions to agree
check_dimensions_and(h, a, b, operation) ==
    IF operation \in {"add", "subtract"}
    THEN IF h[a].rows # h[b].rows /\ h[a].cols # h[b].cols
         THEN "ValueError" ELSE NoErr
    ELSE IF operation = "multiply"
    THEN IF h[a].cols # h[b].rows THEN "ValueError" ELSE NoErr
    ELSE "ValueError"

check_dimensions(h, a, b, operation) ==
    IF operation \in {"add", "subtract"}
    THEN IF h[a].rows # h[b].rows \/ h[a].cols # h[b].cols
         THEN "ValueError" ELSE NoErr
    ELSE IF operation = "multiply"
    THEN IF h[a].cols # h[b].rows THEN "ValueError" ELSE NoErr
    ELSE "ValueError"

Ret(h, ref, err) == [heap |-> h, ret |-> ref, err |-> err]

\* for (i, j), val in a.items(): result.set(i, j, val)
RECURSIVE copy_loop(_, _, _)
copy_loop(st, res, its) ==
    IF its = <<>> \/ st.err # NoErr THEN st
    ELSE LET e == Head(its)
         IN copy_loop(set(st.heap, res, e[1][1], e[1][2], e[2]), res, Tail(its))

\* second loop of add that overwrites instead of accumulating
RECURSIVE add_loop_overwrite(_, _, _)
add_loop_overwrite(st, res, its) ==
    IF its = <<>> \/ st.err # NoErr THEN st
    ELSE LET e == Head(its)
         IN add_loop_overwrite(set(st.heap, res, e[1][1], e[1][2], e[2]),
                               res, Tail(its))

\* for (i, j), val in b.items(): result.set(i, j, result.get(i, j) + val)
RECURSIVE add_loop(_, _, _)
add_loop(st, res, its) ==
    IF its = <<>> \/ st.err # NoErr THEN st
    ELSE LET e == Head(its)
             i == e[1][1]
             j == e[1][2]
         IN add_loop(set(st.heap, res, i, j, get(st.heap, res, i, j) + e[2]),
                     res, Tail(its))

\* second loop of subtract with the operands of the difference swapped
RECURSIVE subtract_loop_swapped(_, _, _)
subtract_loop_swapped(st, res, its) ==
    IF its = <<>> \/ st.err # NoErr THEN st
    ELSE LET e == Head(its)
             i == e[1][1]
             j == e[1][2]
         IN subtract_loop_swapped(
                set(st.heap, res, i, j, e[2] - get(st.heap, res, i, j)),
                res, Tail(its))

\* for (i, j), val in b.items(): result.set(i, j, result.get(i, j) - val)
RECURSIVE subtract_loop(_, _, _)
subtract_loop(st, res, its) ==
    IF its = <<>> \/ st.err # NoErr THEN st
    ELSE LET e == Head(its)
             i == e[1][1]
             j == e[1][2]
         IN subtract_loop(set(st.heap, res, i, j, get(st.heap, res, i, j) - e[2]),
                          res, Tail(its))

\* add that accumulates b into a itself and returns a
add_in_place(h, a, b) ==
    IF check_dimensions(h, a, b, "add") # NoErr THEN Ret(h, None, "ValueError")
    ELSE LET s2 == add_loop([heap |-> h, err |-> NoErr], a, items(h, b))
         IN IF s2.err # NoErr THEN Ret(s2.heap, None, s2.err)
            ELSE Ret(s2.heap, a, NoErr)

add(h, a, b) ==
    IF check_dimensions(h, a, b, "add") # NoErr THEN Ret(h, None, "ValueError")
    ELSE LET n  == new_matrix(h, h[a].rows, h[a].cols)
             s0 == [heap |-> n.heap, err |-> NoErr]
             s1 == copy_loop(s0, n.ref, items(s0.heap, a))
             s2 == add_loop(s1, n.ref, items(s1.heap, b))
         IN IF s2.err # NoErr THEN Ret(s2.heap, None, s2.err)
            ELSE Ret(s2.heap, n.ref, NoErr)

subtract(h, a, b) ==
    IF check_dimensions(h, a, b, "subtract") # NoErr THEN Ret(h, None, "ValueError")
    ELSE LET n  == new_matrix(h, h[a].rows, h[a].cols)
             s0 == [heap |-> n.heap, err |-> NoErr]
             s1 == copy_loop(s0, n.ref, items(s0.heap, a))
             s2 == subtract_loop(s1, n.ref, items(s1.heap, b))
         IN IF s2.err # NoErr THEN Ret(s2.heap, None, s2.err)
            ELSE Ret(s2.heap, n.ref, NoErr)

\* b_cols: dict row -> dict col -> value, both levels in insertion order
RECURSIVE build_b_cols(_, _)
build_b_cols(b_cols, its) ==
    IF its = <<>> THEN b_cols
    ELSE LET e   == Head(its)
             row == e[1][1]
             col == e[1][2]
             bc  == IF ~DictHas(b_cols, row) THEN DictPut(b_cols, row, <<>>)
                    ELSE b_cols
         IN build_b_cols(DictPut(bc, row, DictPut(DictGet(bc, row, <<>>), col, e[2])),
                         Tail(its))

\* inner loop of multiply that overwrites instead of accumulating
RECURSIVE row_loop_overwrite(_, _, _, _, _)
row_loop_overwrite(st, res, i, val_a, brow) ==
    IF brow = <<>> \/ st.err # NoErr THEN st
    ELSE row_loop_overwrite(set(st.heap, res, i, Head(brow)[1], val_a * Head(brow)[2]),
                            res, i, val_a, Tail(brow))

\* for j, val_b in b_cols[k].items(): result.set(i, j, result.get(i, j) + val_a * val_b)
RECURSIVE row_loop(_, _, _, _, _)
row_loop(st, res, i, val_a, brow) ==
    IF brow = <<>> \/ st.err # NoErr THEN st
    ELSE LET j     == Head(brow)[1]
             val_b == Head(brow)[2]
         IN row_loop(set(st.heap, res, i, j, get(st.heap, res, i, j) + val_a * val_b),
                     res, i, val_a, Tail(brow))

\* for (i, k), val_a in a.items(): if k in b_cols: ...
RECURSIVE multiply_loop(_, _, _, _)
multiply_loop(st, res, its, b_cols) ==
    IF its = <<>> \/ st.err # NoErr THEN st
    ELSE LET e == Head(its)
             i == e[1][1]
             k == e[1][2]
             s == IF DictHas(b_cols, k)
                  THEN row_loop(st, res, i, e[2], DictGet(b_cols, k, <<>>))
                  ELSE st
         IN multiply_loop(s, res, Tail(its), b_cols)

multiply(h, a, b) ==
    IF check_dimensions(h, a, b, "multiply") # NoErr THEN Ret(h, None, "ValueError")
    ELSE LET n      == new_matrix(h, h[a].rows, h[b].cols)
             b_cols == build_b_cols(<<>>, items(n.heap, b))
             s1     == multiply_loop([heap |-> n.heap, err |-> NoErr], n.ref,
                                     items(n.heap, a), b_cols)
         IN IF s1.err # NoErr THEN Ret(s1.heap, None, s1.err)
            ELSE Ret(s1.heap, n.ref, NoErr)

\* ------------------------------------------------------------------ main.py
SampleLimit == 5

\* "sample_entries": list(result.items())[:5]
save_result_with_summary(h, res) ==
    LET its == items(h, res)
        k   == IF Len(its) < SampleLimit THEN Len(its) ELSE SampleLimit
    IN [rows |-> h[res].rows, cols |-> h[res].cols,
        entries |-> Triples(SubSeq(its, 1, k))]

\* ------------------------------------ operand matrices the program can hold
Cells(rows, cols) == (0..(rows - 1)) \X (0..(cols - 1))

Injective(d) == \A m, n \in 1..Len(d) : d[m][1] = d[n][1] => m = n

\* every dict a bounded sequence of in-bounds set calls can build
Datas(rows, cols, nnz) ==
    {d \in UNION {[1..n -> Cells(rows, cols) \X NZVals] : n \in 0..nnz} :
        Injective(d)}

MatricesOf(rows, cols, nnz) ==
    {[rows |-> rows, cols |-> cols, data |-> d] : d \in Datas(rows, cols, nnz)}

Matrices == UNION {MatricesOf(s[1], s[2], s[1] * s[2]) : s \in Shapes}

\* ----------------------------------------------- operations on two matrices
\* the caller holds one matrix and passes it as both operands, or holds two
\* and passes the first as a and the second as b
LastObject == Len(heap)

InitOps ==
    /\ \/ \E m1 \in Matrices : heap = <<m1>>
       \/ \E m1 \in Matrices, m2 \in Matrices : heap = <<m1, m2>>
    /\ result = None /\ other = None
    /\ call = NoCall /\ later = NoCall
    /\ pre = heap
    /\ out = NoOut /\ file = NoFile
    /\ steps = 0
    /\ pc = "ready"

Finish(op, a, b, r) ==
    /\ heap' = r.heap
    /\ result' = r.ret
    /\ call' = Call(op, <<a, b>>, r.err)
    /\ pre' = heap
    /\ pc' = "done"
    /\ UNCHANGED <<other, later, out, file, steps>>

Add ==
    /\ pc = "ready"
    /\ Finish("add", 1, LastObject, add(heap, 1, LastObject))

Subtract ==
    /\ pc = "ready"
    /\ Finish("subtract", 1, LastObject, subtract(heap, 1, LastObject))

Multiply ==
    /\ pc = "ready"
    /\ Finish("multiply", 1, LastObject, multiply(heap, 1, LastObject))

\* the caller writes a zero or a non-zero value into the matrix an operation
\* returned
SetResult ==
    /\ pc = "done" /\ result # None
    /\ \E row \in 0..(heap[result].rows - 1), col \in 0..(heap[result].cols - 1),
          value \in {0, MaxVal} :
         LET r == set(heap, result, row, col, value) IN
           /\ heap' = r.heap
           /\ later' = Call("set", <<result, row, col, value>>, r.err)
    /\ pc' = "mutated"
    /\ UNCHANGED <<result, other, call, pre, out, file, steps>>

SaveResultWithSummary ==
    /\ pc = "done" /\ result # None
    /\ out' = save_result_with_summary(heap, result)
    /\ pc' = "saved"
    /\ UNCHANGED <<heap, result, other, call, later, pre, file, steps>>

NextOps == Add \/ Subtract \/ Multiply \/ SetResult \/ SaveResultWithSummary

SpecOps == InitOps /\ [][NextOps]_vars

\* ------------------------------------------------------- matrix_io.py parser
\* A file is its declared rows and cols and its entry lines; a line is the
\* tuple of numbers between its parentheses (a well-formed line has three).

\* entry loop without the bounds test before matrix.set
RECURSIVE parse_loop_unguarded(_, _, _)
parse_loop_unguarded(st, matrix, lines) ==
    IF lines = <<>> \/ st.err # NoErr THEN st
    ELSE LET parts == Head(lines)
         IN IF Len(parts) # 3
            THEN [heap |-> st.heap, err |-> "ValueError"]
            ELSE parse_loop_unguarded(set(st.heap, matrix, parts[1], parts[2], parts[3]),
                                      matrix, Tail(lines))

\* for line_num, line in enumerate(lines[2:], start=3): ...
RECURSIVE parse_loop(_, _, _)
parse_loop(st, matrix, lines) ==
    IF lines = <<>> \/ st.err # NoErr THEN st
    ELSE LET parts == Head(lines)
             rows  == st.heap[matrix].rows
             cols  == st.heap[matrix].cols
         IN IF Len(parts) # 3
            THEN [heap |-> st.heap, err |-> "ValueError"]
            ELSE LET row == parts[1]
                     col == parts[2]
                     val == parts[3]
                 IN IF ~(0 <= row /\ row < rows) \/ ~(0 <= col /\ col < cols)
                    THEN parse_loop(st, matrix, Tail(lines))
                    ELSE parse_loop(set(st.heap, matrix, row, col, val),
                                    matrix, Tail(lines))

parse_matrix_file(h, f) ==
    LET n == new_matrix(h, f.rows, f.cols)
        s == parse_loop([heap |-> n.heap, err |-> NoErr], n.ref, f.lines)
    IN IF s.err # NoErr THEN Ret(s.heap, None, s.err)
       ELSE Ret(s.heap, n.ref, NoErr)

\* entry lines: every coordinate from one below to one past the shape, every
\* value, and one line with a missing field
Lines(rows, cols) == (Coords(rows) \X Coords(cols) \X Vals) \cup {<<0, 0>>}

Files ==
    UNION {[rows : {s[1]}, cols : {s[2]},
            lines : UNION {[1..n -> Lines(s[1], s[2])] : n \in 0..MaxLines}] :
             s \in Shapes}

InitParse ==
    /\ heap = <<>>
    /\ file \in Files
    /\ result = None /\ other = None
    /\ call = NoCall /\ later = NoCall
    /\ pre = heap
    /\ out = NoOut
    /\ steps = 0
    /\ pc = "ready"

ParseMatrixFile ==
    /\ pc = "ready"
    /\ LET r == parse_matrix_file(heap, file) IN
         /\ heap' = r.heap
         /\ result' = r.ret
         /\ call' = Call("parse_matrix_file", <<>>, r.err)
    /\ pre' = heap
    /\ pc' = "done"
    /\ UNCHANGED <<other, later, out, file, steps>>

NextParse == ParseMatrixFile

SpecParse == InitParse /\ [][NextParse]_vars

\* ------------------------------------ both sides of A(B + C) = AB + AC
\* objects 1, 2, 3 are A, B, C; Distribute forms multiply(A, add(B, C)) and
\* then add(multiply(A, B), multiply(A, C)), each call on the store the
\* previous one left

\* addends B, C of one shape with at most MaxTerm entries between them
Addends(rows, cols) ==
    {bc \in MatricesOf(rows, cols, MaxTerm) \X MatricesOf(rows, cols, MaxTerm) :
        Len(bc[1].data) + Len(bc[2].data) <= MaxTerm}

\* A.cols = B.rows
InitDistribute ==
    /\ \E sa \in Shapes, sb \in Shapes :
         /\ sa[2] = sb[1]
         /\ \E A \in MatricesOf(sa[1], sa[2], sa[1] * sa[2]),
               bc \in Addends(sb[1], sb[2]) : heap = <<A, bc[1], bc[2]>>
    /\ result = None /\ other = None
    /\ call = NoCall /\ later = NoCall
    /\ pre = heap
    /\ out = NoOut /\ file = NoFile
    /\ steps = 0
    /\ pc = "ready"

Distribute ==
    /\ pc = "ready"
    /\ \E bc \in {add(heap, 2, 3)} :
       \E l \in {IF bc.err # NoErr THEN bc ELSE multiply(bc.heap, 1, bc.ret)} :
       \E ab \in {IF l.err # NoErr THEN l ELSE multiply(l.heap, 1, 2)} :
       \E ac \in {IF ab.err # NoErr THEN ab ELSE multiply(ab.heap, 1, 3)} :
       \E r \in {IF ac.err # NoErr THEN ac ELSE add(ac.heap, ab.ret, ac.ret)} :
          /\ heap' = r.heap
          /\ result' = l.ret
          /\ other' = r.ret
          /\ call' = Call("distribute", <<1, 2, 3>>, r.err)
    /\ pre' = heap
    /\ pc' = "done"
    /\ UNCHANGED <<later, out, file, steps>>

NextDistribute == Distribute

SpecDistribute == InitDistribute /\ [][NextDistribute]_vars

\* ======================================================================
\* Properties
\* ======================================================================
InBounds(m, row, col) == 0 <= row /\ row < m.rows /\ 0 <= col /\ col < m.cols

Keys(m) == {m.data[n][1] : n \in 1..Len(m.data)}

Ascending(entries) ==
    \A m, n \in 1..Len(entries) :
        m < n => KeyLess(<<entries[m][1], entries[m][2]>>,
                         <<entries[n][1], entries[n][2]>>)

\* C1: whatever sequence of set calls was made, the mapping holds no entry of
\* value 0, and right after an in-bounds set(r, c, 0) get(r, c) is 0 and
\* (r, c) is not among items(), populated before or not.
C1_ZeroIsNeverStored ==
    /\ \A n \in 1..Len(items(heap, 1)) : items(heap, 1)[n][2] # 0
    /\ (call.op = "set" /\ call.args[4] = 0
          /\ InBounds(pre[1], call.args[2], call.args[3]))
       => /\ call.err = NoErr
          /\ get(heap, 1, call.args[2], call.args[3]) = 0
          /\ <<call.args[2], call.args[3]>> \notin Keys(heap[1])

\* a populated coordinate was just set to 0 while another entry stays
C1_Witness ==
    /\ call.op = "set" /\ call.args[4] = 0 /\ call.err = NoErr
    /\ <<call.args[2], call.args[3]>> \in Keys(pre[1])
    /\ Len(items(heap, 1)) >= 1

\* C2: a set outside the declared shape fails with the index error for any
\* value and changes nothing; hence every key of the mapping is in bounds.
C2_OutOfBoundsSetRejected ==
    /\ (call.op = "set" /\ ~InBounds(pre[1], call.args[2], call.args[3]))
       => (call.err = "IndexError" /\ heap = pre)
    /\ (call.op = "set" /\ InBounds(pre[1], call.args[2], call.args[3]))
       => call.err = NoErr
    /\ \A k \in Keys(heap[1]) : InBounds(heap[1], k[1], k[2])
    /\ heap[1].rows = pre[1].rows /\ heap[1].cols = pre[1].cols

\* a non-zero set one past the last row was rejected on a populated matrix
C2_Witness ==
    /\ call.op = "set" /\ call.err = "IndexError"
    /\ call.args[2] = heap[1].rows /\ call.args[4] # 0
    /\ Len(items(heap, 1)) >= 1

\* C10: every writer lists the entries by ascending row, then ascending column,
\* whatever the insertion order was.
C10_WritersListAscending ==
    pc = "written" => Ascending(out.entries)

\* ------------------------------------------------- operations, SpecOps
SameShape(m1, m2) == m1.rows = m2.rows /\ m1.cols = m2.cols

Returned == pc \in {"done", "saved"}

\* the operands of the last operation, as they were when it was called
OpA == pre[call.args[1]]
OpB == pre[call.args[2]]

At(m, i, j) == DictGet(m.data, <<i, j>>, 0)

\* sum over k < n of a[i, k] * b[k, j]
RECURSIVE Dot(_, _, _, _, _)
Dot(a, b, i, j, n) ==
    IF n = 0 THEN 0 ELSE Dot(a, b, i, j, n - 1) + At(a, i, n - 1) * At(b, n - 1, j)

EntrySet(m) == {m.data[n] : n \in 1..Len(m.data)}

\* C3: on operands of one shape add returns a matrix of that shape holding
\* exactly the coordinates whose sum a + b is non-zero, each with that sum;
\* cancelled sums are absent, and adding an empty matrix gives a's entries.
C3_AddIsEntrywiseSum ==
    (Returned /\ call.op = "add" /\ SameShape(OpA, OpB))
    => /\ call.err = NoErr /\ result # None
       /\ SameShape(heap[result], OpA)
       /\ Injective(items(heap, result))
       /\ \A k \in Cells(OpA.rows, OpA.cols) :
             /\ get(heap, result, k[1], k[2]) = At(OpA, k[1], k[2]) + At(OpB, k[1], k[2])
             /\ k \in Keys(heap[result])
                  <=> At(OpA, k[1], k[2]) + At(OpB, k[1], k[2]) # 0
       /\ Keys(heap[result]) \subseteq Cells(OpA.rows, OpA.cols)
       /\ items(pre, call.args[2]) = <<>> => EntrySet(heap[result]) = EntrySet(OpA)

\* two distinct operands were added; one coordinate cancelled, another did not
C3_Witness ==
    /\ Returned /\ call.op = "add" /\ call.args = <<1, 2>> /\ call.err = NoErr
    /\ \E k \in Keys(OpA) \cap Keys(OpB) : k \notin Keys(heap[result])
    /\ \E k \in Keys(OpA) \cap Keys(OpB) : k \in Keys(heap[result])

\* C4: on operands of one shape subtract returns a matrix of that shape
\* holding exactly the coordinates where a - b is non-zero, each with a's value
\* minus b's; subtract(A, A) has no entries and A's shape.
C4_SubtractIsEntrywiseDifference ==
    (Returned /\ call.op = "subtract" /\ SameShape(OpA, OpB))
    => /\ call.err = NoErr /\ result # None
       /\ SameShape(heap[result], OpA)
       /\ Injective(items(heap, result))
       /\ \A k \in Cells(OpA.rows, OpA.cols) :
             /\ get(heap, result, k[1], k[2]) = At(OpA, k[1], k[2]) - At(OpB, k[1], k[2])
             /\ k \in Keys(heap[result])
                  <=> At(OpA, k[1], k[2]) - At(OpB, k[1], k[2]) # 0
       /\ Keys(heap[result]) \subseteq Cells(OpA.rows, OpA.cols)
       /\ call.args[1] = call.args[2] => items(heap, result) = <<>>

\* b was subtracted from a different a; an entry only b holds came out negated
\* and a coordinate with equal values came out absent
C4_Witness ==
    /\ Returned /\ call.op = "subtract" /\ call.args = <<1, 2>> /\ call.err = NoErr
    /\ \E k \in Keys(OpB) \ Keys(OpA) :
          get(heap, result, k[1], k[2]) = 0 - At(OpB, k[1], k[2])
    /\ \E k \in Keys(OpA) \cap Keys(OpB) : k \notin Keys(heap[result])

\* C5: when a.cols = b.rows multiply completes without an error and returns a
\* matrix of shape (a.rows, b.cols) holding exactly the coordinates whose dot
\* product sum_k a[i,k] * b[k,j] is non-zero, each with that sum, in whatever
\* order a's entries are stored.
C5_MultiplyIsMatrixProduct ==
    (Returned /\ call.op = "multiply" /\ OpA.cols = OpB.rows)
    => /\ call.err = NoErr /\ result # None
       /\ heap[result].rows = OpA.rows /\ heap[result].cols = OpB.cols
       /\ Injective(items(heap, result))
       /\ \A k \in Cells(OpA.rows, OpB.cols) :
             /\ get(heap, result, k[1], k[2]) = Dot(OpA, OpB, k[1], k[2], OpA.cols)
             /\ k \in Keys(heap[result])
                  <=> Dot(OpA, OpB, k[1], k[2], OpA.cols) # 0
       /\ Keys(heap[result]) \subseteq Cells(OpA.rows, OpB.cols)

\* a product was formed in which two non-zero contributions to one coordinate
\* cancelled, with a's entries stored in descending column order
C5_Witness ==
    /\ Returned /\ call.op = "multiply" /\ call.args = <<1, 2>> /\ call.err = NoErr
    /\ \E i \in 0..(OpA.rows - 1), j \in 0..(OpB.cols - 1) :
          /\ Cardinality({k \in 0..(OpA.cols - 1) : At(OpA, i, k) * At(OpB, k, j) # 0}) >= 2
          /\ <<i, j>> \notin Keys(heap[result])
    /\ Len(OpA.data) = 2 /\ KeyLess(OpA.data[2][1], OpA.data[1][1])

\* C6: add and subtract fail with the dimension error exactly when the shapes
\* differ, multiply exactly when a.cols # b.rows; a failing call returns no
\* matrix and has built none, a passing call returns one.
C6_DimensionCheck ==
    /\ call.op \in {"add", "subtract"}
       => (call.err = "ValueError" <=> ~SameShape(OpA, OpB))
    /\ call.op = "multiply"
       => (call.err = "ValueError" <=> OpA.cols # OpB.rows)
    /\ (call.op \in {"add", "subtract", "multiply"} /\ call.err # NoErr)
       => (result = None /\ heap = pre)
    /\ (call.op \in {"add", "subtract", "multiply"} /\ call.err = NoErr)
       => (result # None /\ Len(heap) = Len(pre) + 1)

\* an add of populated matrices that agree in rows but not in columns failed
C6_Witness ==
    /\ call.op = "add" /\ call.err = "ValueError"
    /\ OpA.rows = OpB.rows /\ OpA.cols # OpB.cols
    /\ OpA.data # <<>> /\ OpB.data # <<>>

\* C7: after any operation, passed or failed, both operands are what they
\* were, also when they are one object; the returned matrix is a new object,
\* and a later set on it leaves the operands alone.
C7_InputsNeverMutated ==
    pc # "ready"
    => /\ \A o \in DOMAIN pre : heap[o] = pre[o]
       /\ result # None => (result \notin {call.args[1], call.args[2]}
                             /\ result \notin DOMAIN pre)

\* a matrix was added to itself and the caller then stored a new value in the
\* sum; the operand does not show it
C7_Witness ==
    /\ pc = "mutated" /\ call.op = "add" /\ call.args = <<1, 1>>
    /\ later.err = NoErr /\ later.args[4] # 0
    /\ get(heap, result, later.args[2], later.args[3]) = later.args[4]
    /\ get(heap, 1, later.args[2], later.args[3]) # later.args[4]
    /\ items(heap, 1) # <<>>

\* --------------------------------------------------- distributivity
\* C8: for A, B, C with B and C of one shape and A.cols = B.rows,
\* multiply(A, add(B, C)) and add(multiply(A, B), multiply(A, C)) have the same
\* shape and the same entries with equal values.
C8_MultiplyDistributesOverAdd ==
    (pc = "done" /\ call.op = "distribute")
    => /\ call.err = NoErr /\ result # None /\ other # None
       /\ SameShape(heap[result], heap[other])
       /\ EntrySet(heap[result]) = EntrySet(heap[other])
       /\ Injective(items(heap, result)) /\ Injective(items(heap, other))

\* AB and AC both hold a coordinate that A(B + C) lacks: the two products
\* cancel there, though B + C itself has entries
C8_Witness ==
    /\ pc = "done" /\ call.op = "distribute" /\ call.err = NoErr
    /\ \E ab, ac \in DOMAIN heap :
          /\ ab # ac /\ ab \notin {result, other} /\ ac \notin {result, other}
          /\ \E k \in Keys(heap[ab]) \cap Keys(heap[ac]) :
                k \notin Keys(heap[result]) /\ k \notin Keys(heap[other])
    /\ Keys(heap[2]) # Keys(heap[3])

\* ------------------------------------------------------------------ parser
WellFormed(f) == \A n \in 1..Len(f.lines) : Len(f.lines[n]) = 3

\* the value of the last line of f that names the in-bounds coordinate k
RECURSIVE LastValue(_, _, _)
LastValue(lines, k, n) ==
    IF n = 0 THEN 0
    ELSE IF <<lines[n][1], lines[n][2]>> = k THEN lines[n][3]
    ELSE LastValue(lines, k, n - 1)

Skipped(f, n) == ~InBounds(f, f.lines[n][1], f.lines[n][2])

\* C9: in a well-formed file every line whose coordinate is outside the
\* declared shape is skipped and the load goes on: the matrix returned has the
\* declared shape and holds, for every in-bounds coordinate, the value of the
\* last line naming it (absent if that is 0), and nothing else.
C9_OutOfBoundsLinesSkipped ==
    (pc = "done" /\ call.op = "parse_matrix_file" /\ WellFormed(file))
    => /\ call.err = NoErr /\ result # None
       /\ heap[result].rows = file.rows /\ heap[result].cols = file.cols
       /\ Injective(items(heap, result))
       /\ Keys(heap[result]) \subseteq Cells(file.rows, file.cols)
       /\ \A k \in Cells(file.rows, file.cols) :
             /\ get(heap, result, k[1], k[2]) = LastValue(file.lines, k, Len(file.lines))
             /\ k \in Keys(heap[result])
                  <=> LastValue(file.lines, k, Len(file.lines)) # 0

\* a line one past the last row was skipped and the line after it was stored
C9_Witness ==
    /\ pc = "done" /\ call.op = "parse_matrix_file" /\ call.err = NoErr
    /\ Len(file.lines) >= 2
    /\ file.lines[1][1] = file.rows /\ file.lines[1][3] # 0
    /\ ~Skipped(file, 2)
    /\ get(heap, result, file.lines[2][1], file.lines[2][2]) = file.lines[2][3]
    /\ file.lines[2][3] # 0

====
